---- MODULE Spec2Model ----
(***************************************************************************)
(* HandleOptionalParameters (src/lib/index.ts): a CDK construct that       *)
(* compiles, from requiredProperties, optionalProperties and a             *)
(* dataProcessing expression, a Step Functions state machine               *)
(*   Generate Placeholder -> Merge with placeholder ->                     *)
(*   Optional properties as array -> Map over all properties ->            *)
(*   Concat -> ToJson                                                      *)
(* and wraps it in a StepFunctionsStartExecution task.                     *)
(*                                                                         *)
(* JSON values are records [k, s, items]; strings that the pipeline builds *)
(* with States.Format are sequences of tokens, so that the text handed to  *)
(* States.StringToJson is really parsed.                                   *)
(***************************************************************************)
EXTENDS Naturals, Sequences, FiniteSets, TLC

(***************************************************************************)
(* Bounds of the model.                                                    *)
(***************************************************************************)
\* Longest requiredProperties ++ optionalProperties list of specification Spec.
MaxProps == 3
\* Number of optional properties of the schema of specification SpecPositions.
OptionalPositions == 3
\* Longest requiredProperties / optionalProperties list of SpecBuild.
MaxBuildLen == 2

(***************************************************************************)
(* JSON values.                                                            *)
(***************************************************************************)
Num(t) == [k |-> "number", s |-> t, items |-> <<>>]
Bool(t) == [k |-> "boolean", s |-> t, items |-> <<>>]
Str(t) == [k |-> "string", s |-> t, items |-> <<>>]
Arr(vs) == [k |-> "array", s |-> "", items |-> vs]
JsonNull == [k |-> "null", s |-> "null", items |-> <<>>]

\* $$.Execution.Id of the run: the ARN of the execution.
ExecutionId == "arn:aws:states:us-east-1:024892491262:execution:sm:run"

\* The values States.UUID() returns, one per evaluation: opaque, pairwise
\* distinct, and never of the form of an execution ARN.
UuidPool ==
    << "ca4c1140-dcc1-40cd-ad05-7b4aa23df4a8",
       "2f1c8a3e-5b7d-4e9a-8c1f-0a6b3d9e7f21",
       "7d3e9b10-1c2a-4f5b-9e8d-3a4b5c6d7e8f",
       "0b9f6c2d-8e4a-4b1c-a7d3-5e2f1a0c9b84",
       "e1a7c5d3-2b4f-4a6e-b8c0-9d1f3e5a7c2b" >>

StatesUUID(n) == Str(UuidPool[((n - 1) % Len(UuidPool)) + 1])

(***************************************************************************)
(* Text: a sequence of tokens.  A string's content is one token (none for  *)
(* the empty string); "{}" is the hole of a States.Format template.        *)
(***************************************************************************)
Chars(s) == IF s = "" THEN <<>> ELSE <<s>>

NumberTokens == {"0", "1"}
BooleanTokens == {"true", "false"}

RECURSIVE StatesJsonToString(_)
RECURSIVE JoinElements(_)
JoinElements(vs) ==
    IF vs = <<>> THEN <<>>
    ELSE IF Len(vs) = 1 THEN StatesJsonToString(vs[1])
    ELSE StatesJsonToString(vs[1]) \o <<",">> \o JoinElements(Tail(vs))

\* States.JsonToString($.value)
StatesJsonToString(v) ==
    CASE v.k = "string" -> <<"\"">> \o Chars(v.s) \o <<"\"">>
      [] v.k = "array" -> <<"[">> \o JoinElements(v.items) \o <<"]">>
      [] OTHER -> <<v.s>>

\* States.Format(template, args...): each "{}" takes the next argument.
RECURSIVE StatesFormat(_, _)
StatesFormat(template, args) ==
    IF template = <<>> THEN <<>>
    ELSE IF Head(template) = "{}"
         THEN Head(args) \o StatesFormat(Tail(template), Tail(args))
         ELSE <<Head(template)>> \o StatesFormat(Tail(template), args)

(***************************************************************************)
(* States.StringToJson: a JSON parser over the tokens.                     *)
(***************************************************************************)
ParseFail == [ok |-> FALSE, val |-> JsonNull, rest |-> <<>>]
ParseOk(v, r) == [ok |-> TRUE, val |-> v, rest |-> r]

StripWhitespace(toks) == SelectSeq(toks, LAMBDA t : t # " ")

\* toks follows an opening quote
ParseStringBody(toks) ==
    IF toks = <<>> THEN ParseFail
    ELSE IF Head(toks) = "\"" THEN ParseOk(Str(""), Tail(toks))
    ELSE IF Len(toks) >= 2 /\ toks[2] = "\""
         THEN ParseOk(Str(toks[1]), SubSeq(toks, 3, Len(toks)))
         ELSE ParseFail

RECURSIVE ParseValue(_)
RECURSIVE ParseElements(_, _)

\* toks starts at an element of an array; acc holds the elements read so far
ParseElements(toks, acc) ==
    LET e == ParseValue(toks) IN
    IF ~e.ok \/ e.rest = <<>> THEN ParseFail
    ELSE IF Head(e.rest) = "]" THEN ParseOk(Arr(Append(acc, e.val)), Tail(e.rest))
    ELSE IF Head(e.rest) = "," THEN ParseElements(Tail(e.rest), Append(acc, e.val))
    ELSE ParseFail

ParseValue(toks) ==
    IF toks = <<>> THEN ParseFail
    ELSE LET h == Head(toks) IN
         CASE h \in NumberTokens -> ParseOk(Num(h), Tail(toks))
           [] h \in BooleanTokens -> ParseOk(Bool(h), Tail(toks))
           [] h = "null" -> ParseOk(JsonNull, Tail(toks))
           [] h = "\"" -> ParseStringBody(Tail(toks))
           [] h = "[" ->
                IF Len(toks) >= 2 /\ toks[2] = "]"
                THEN ParseOk(Arr(<<>>), SubSeq(toks, 3, Len(toks)))
                ELSE ParseElements(Tail(toks), <<>>)
           [] OTHER -> ParseFail

ObjectFail == [ok |-> FALSE, obj |-> <<>>]

\* a later member of the same name replaces the earlier one
PutMember(obj, name, v) ==
    [key \in DOMAIN obj \cup {name} |-> IF key = name THEN v ELSE obj[key]]

\* toks starts at a member "name": value; acc holds the members read so far
RECURSIVE ParseMembers(_, _)
ParseMembers(toks, acc) ==
    IF toks = <<>> \/ Head(toks) # "\"" THEN ObjectFail
    ELSE LET name == ParseStringBody(Tail(toks)) IN
         IF ~name.ok \/ name.rest = <<>> \/ Head(name.rest) # ":" THEN ObjectFail
         ELSE LET v == ParseValue(Tail(name.rest)) IN
              IF ~v.ok \/ v.rest = <<>> THEN ObjectFail
              ELSE LET obj == PutMember(acc, name.val.s, v.val) IN
                   IF Head(v.rest) = "}"
                   THEN IF Len(v.rest) = 1 THEN [ok |-> TRUE, obj |-> obj]
                        ELSE ObjectFail
                   ELSE IF Head(v.rest) = ","
                        THEN ParseMembers(Tail(v.rest), obj)
                        ELSE ObjectFail

\* States.StringToJson($.object); the text of this pipeline is an object
StatesStringToJson(text) ==
    LET toks == StripWhitespace(text) IN
    IF toks = <<>> \/ Head(toks) # "{" THEN ObjectFail
    ELSE IF Len(toks) = 2 /\ toks[2] = "}" THEN [ok |-> TRUE, obj |-> <<>>]
    ELSE ParseMembers(Tail(toks), <<>>)

(***************************************************************************)
(* The intrinsic functions a dataProcessing expression may call.           *)
(***************************************************************************)
\* MIME Base64 of the strings that occur in the model
Base64(s) ==
    CASE s = "" -> ""
      [] s = "x" -> "eA=="
      [] s = ExecutionId ->
           "YXJuOmF3czpzdGF0ZXM6dXMtZWFzdC0xOjAyNDg5MjQ5MTI2MjpleGVjdXRpb246c206cnVu"
      [] s = UuidPool[1] -> "Y2E0YzExNDAtZGNjMS00MGNkLWFkMDUtN2I0YWEyM2RmNGE4"
      [] s = UuidPool[2] -> "MmYxYzhhM2UtNWI3ZC00ZTlhLThjMWYtMGE2YjNkOWU3ZjIx"
      [] s = UuidPool[3] -> "N2QzZTliMTAtMWMyYS00ZjViLTllOGQtM2E0YjVjNmQ3ZThm"
      [] s = UuidPool[4] -> "MGI5ZjZjMmQtOGU0YS00YjFjLWE3ZDMtNWUyZjFhMGM5Yjg0"
      [] s = UuidPool[5] -> "ZTFhN2M1ZDMtMmI0Zi00YTZlLWI4YzAtOWQxZjNlNWE3YzJi"
      [] OTHER -> "base64"

Evaluated(v) == [ok |-> TRUE, val |-> v]
EvaluationError == [ok |-> FALSE, val |-> JsonNull]

\* States.Array($.value): a one-item array, defined on every value
StatesArray(v) == Evaluated(Arr(<<v>>))

\* States.Base64Encode($.value): defined on strings only
StatesBase64Encode(v) ==
    IF v.k = "string" THEN Evaluated(Str(Base64(v.s))) ELSE EvaluationError

\* The dataProcessing expressions of the documentation
DataProcessings == {"States.Array($.value)", "States.Base64Encode($.value)"}

\* "value.$": dataProcessing, evaluated on an item of the Map
EvaluateDataProcessing(dataProcessing, item) ==
    CASE dataProcessing = "States.Array($.value)" -> StatesArray(item.value)
      [] dataProcessing = "States.Base64Encode($.value)" ->
           StatesBase64Encode(item.value)
      [] OTHER -> EvaluationError

(***************************************************************************)
(* Build time: what the constructor computes from its props.               *)
(***************************************************************************)
HandleOptionalParametersProps ==
    {"requiredProperties", "optionalProperties", "dataProcessing"}

\* [...requiredProperties, ...optionalProperties]
AllProperties(requiredProperties, optionalProperties) ==
    requiredProperties \o optionalProperties

\* The keys of the placeholder object of "Generate Placeholder"; the reduce
\* writes one key `${propertyName}.$` per name, a repeated name once.
placeholderParameters(properties) ==
    {properties[i] : i \in 1..Len(properties)}

\* The propertyName of each item of "Optional properties as array"; its value
\* is read at $.output.${propertyName}.
transformedInputParameters(properties) ==
    [i \in 1..Len(properties) |-> properties[i]]

\* const string = [...].reduce((currentString) => currentString.concat("{} "),
\*                             "States.Format(' ")
RECURSIVE stringReduce(_, _)
stringReduce(properties, currentString) ==
    IF properties = <<>> THEN currentString
    ELSE stringReduce(Tail(properties), currentString \o <<"{}", " ">>)

string(properties) == stringReduce(properties, <<" ">>)

\* the template of format: string.concat(" {} {} {}' ...")
formatTemplate(properties) ==
    string(properties) \o <<" ", "{}", " ", "{}", " ", "{}">>

Literal(t) == [kind |-> "literal", text |-> <<t>>, field |-> "", index |-> 0]
Path(f, i) == [kind |-> "path", text |-> <<>>, field |-> f, index |-> i]

\* format, had it taken the opening slot from $.allValues[0]
formatArgumentsOpeningFromAllValues(properties) ==
    <<Literal("{"), Path("allValues", 0)>>
      \o [i \in 1..Len(properties) |-> Path("allValues", i - 1)]
      \o <<Literal("}")>>

\* the arguments of format: '{', $.notNullValues[0], one $.allValues[index]
\* per property, and the '}' that concatTask appends
formatArguments(properties) ==
    <<Literal("{"), Path("notNullValues", 0)>>
      \o [i \in 1..Len(properties) |-> Path("allValues", i - 1)]
      \o <<Literal("}")>>

\* "valueToConcat.$" and "value.$" of the Pass state "Values"
valueToConcatTemplate == <<",", "\"", "{}", "\"", ":", " ", "{}">>
valueTemplate == <<"\"", "{}", "\"", ":", " ", "{}">>

\* The definition of the state machine "Process object input values"
StateMachine(requiredProperties, optionalProperties, dataProcessing) ==
    LET properties == AllProperties(requiredProperties, optionalProperties) IN
    [ placeholder |-> placeholderParameters(properties),
      transformedInput |-> transformedInputParameters(properties),
      dataProcessing |-> dataProcessing,
      template |-> formatTemplate(properties),
      arguments |-> formatArguments(properties) ]

\* the rest of props, had dataProcessing not been taken out of it
stepFunctionsStartExecutionPropsKeepingDataProcessing(props) ==
    [key \in DOMAIN props \ {"requiredProperties", "optionalProperties"} |->
        props[key]]

\* const { requiredProperties, optionalProperties, dataProcessing,
\*         ...stepFunctionsStartExecutionProps } = props
stepFunctionsStartExecutionProps(props) ==
    [key \in DOMAIN props \ HandleOptionalParametersProps |-> props[key]]

\* super(scope, id, { ...stepFunctionsStartExecutionProps, stateMachine })
Constructor(props) ==
    [stateMachine |->
        StateMachine(props.requiredProperties, props.optionalProperties,
                     props.dataProcessing)]
      @@ stepFunctionsStartExecutionProps(props)

(***************************************************************************)
(* Run time: the states of the pipeline.                                   *)
(***************************************************************************)
\* position of the first occurrence of name in properties
FirstIndex(properties, name) ==
    CHOOSE i \in 1..Len(properties) :
        /\ properties[i] = name
        /\ \A j \in 1..(i - 1) : properties[j] # name

\* "Generate Placeholder": one States.UUID() per key
generatePlaceholderTask(definition) ==
    [name \in definition.placeholder |->
        StatesUUID(FirstIndex(definition.transformedInput, name))]

\* a merge that takes the second object's value only when it is truthy
StatesJsonMergeTruthy(first, second) ==
    [key \in DOMAIN first \cup DOMAIN second |->
        IF /\ key \in DOMAIN second
           /\ \/ key \notin DOMAIN first
              \/ second[key] \notin {Num("0"), Bool("false"), Str("")}
        THEN second[key]
        ELSE first[key]]

\* States.JsonMerge($.placeholder, $.input, false): a shallow merge in which
\* the second object's value wins
StatesJsonMerge(first, second) ==
    [key \in DOMAIN first \cup DOMAIN second |->
        IF key \in DOMAIN second THEN second[key] ELSE first[key]]

\* "Merge with placeholder"
mergeWithPlaceholderValuesTask(placeholderObject, inputObject) ==
    StatesJsonMerge(placeholderObject, inputObject)

\* "Optional properties as array"
optionalPropertiesAsArrayTask(definition, outputObject) ==
    [i \in 1..Len(definition.transformedInput) |->
        [ value |-> outputObject[definition.transformedInput[i]],
          propertyName |-> definition.transformedInput[i] ]]

\* Condition.stringEqualsJsonPath("$.value", "$$.Execution.Id"): holds of a
\* string equal to the execution's id, of nothing else
choiceTask(item) == item.value.k = "string" /\ item.value.s = ExecutionId

\* "Null values" (its separator field is read by no later state)
passNullValues == [valueToConcat |-> <<>>, value |-> <<>>]

\* "Values"
passValues(item) ==
    LET arguments == <<Chars(item.propertyName), StatesJsonToString(item.value)>> IN
    [ valueToConcat |-> StatesFormat(valueToConcatTemplate, arguments),
      value |-> StatesFormat(valueTemplate, arguments) ]

\* "Process object values" with a Catch that goes to "Null values"
processObjectValuesTaskCaught(dataProcessing, item) ==
    LET processed == EvaluateDataProcessing(dataProcessing, item) IN
    [ok |-> TRUE,
     result |-> IF processed.ok
                THEN passValues([value |-> processed.val,
                                 propertyName |-> item.propertyName])
                ELSE passNullValues]

\* "Process object values".next("Values"); a failed evaluation fails the state
processObjectValuesTask(dataProcessing, item) ==
    LET processed == EvaluateDataProcessing(dataProcessing, item) IN
    IF processed.ok
    THEN [ok |-> TRUE,
          result |-> passValues([value |-> processed.val,
                                 propertyName |-> item.propertyName])]
    ELSE [ok |-> FALSE, result |-> passNullValues]

\* The iterator of the Map: the Choice and the branch it takes
Iterator(dataProcessing, item) ==
    IF choiceTask(item) THEN [ok |-> TRUE, result |-> passNullValues]
    ELSE processObjectValuesTask(dataProcessing, item)

\* the iterations' results in the order the iterations ended in
MapOutputInCompletionOrder(finished, n) ==
    [i \in 1..n |-> finished[i].result]

\* The output of the Map state: the iterations' results in the order of the
\* items, whatever the order the iterations ended in
MapOutput(finished, n) ==
    [i \in 1..n |->
        LET e == CHOOSE e \in 1..Len(finished) : finished[e].index = i IN
        finished[e].result]

\* resultSelector, "notNullValues.$": "$.[?(@.valueToConcat != ' ')].value"
selectNotNullValues(results) ==
    LET kept == SelectSeq(results, LAMBDA r : r.valueToConcat # <<" ">>) IN
    [i \in 1..Len(kept) |-> kept[i].value]

\* resultSelector, "allValues.$": "$.*.valueToConcat"
selectAllValues(results) ==
    [i \in 1..Len(results) |-> results[i].valueToConcat]

\* One argument of the Concat format, read in the output of the Map; a path
\* that is not there fails the state
ArgumentFound(argument, data) ==
    argument.kind = "literal" \/ argument.index + 1 <= Len(data[argument.field])

ArgumentText(argument, data) ==
    IF argument.kind = "literal" THEN argument.text
    ELSE data[argument.field][argument.index + 1]

\* "Concat"
concatTask(definition, data) ==
    IF \A a \in 1..Len(definition.arguments) :
           ArgumentFound(definition.arguments[a], data)
    THEN [ok |-> TRUE,
          object |-> StatesFormat(definition.template,
                        [a \in 1..Len(definition.arguments) |->
                            ArgumentText(definition.arguments[a], data)])]
    ELSE [ok |-> FALSE, object |-> <<>>]

\* "ToJson"
toJsonTask(object) == StatesStringToJson(object)

(***************************************************************************)
(* The state: the caller's props, the props handed to                      *)
(* StepFunctionsStartExecution, and the data of one execution of the       *)
(* compiled state machine.                                                 *)
(***************************************************************************)
VARIABLES
    pc,               \* "new", "built", the state to run next, or the end status
    props,            \* the props the constructor is called with
    superProps,       \* the props passed to super(), <<>> before construction
    input,            \* the execution input
    placeholder,      \* $.placeholder
    output,           \* $.output of "Merge with placeholder"
    transformedInput, \* $.transformedInput
    finished,         \* the Map's running iterations, in the order they ended
    shuffled,         \* an iteration has ended before one of an earlier item
    mapResult,        \* the output of the Map state
    object,           \* $.object of "Concat"
    executionOutput,  \* the output of the execution, once it has succeeded
    error             \* the state that failed the execution, or "none"

vars == << pc, props, superProps, input, placeholder, output, transformedInput,
           finished, shuffled, mapResult, object, executionOutput, error >>

NoMapResult == [notNullValues |-> <<>>, allValues |-> <<>>]

\* names of the properties, in declaration order
NamePool == <<"id", "tag", "p3", "p4", "p5", "p6">>
\* a field of the input that the schema does not declare
UndeclaredName == "extra"

\* the values an input gives a field: the falsy ones, a string, and the id
\* of the execution itself (a caller that names the execution knows its ARN)
InputValues ==
    {Num("0"), Bool("false"), Str(""), Str("x"), Str(ExecutionId)}

\* integrationPattern: IntegrationPattern.REQUEST_RESPONSE, as src/test passes
TestHostProps == [integrationPattern |-> "REQUEST_RESPONSE"]

MakeProps(requiredProperties, optionalProperties, dataProcessing, hostProps) ==
    [ requiredProperties |-> requiredProperties,
      optionalProperties |-> optionalProperties,
      dataProcessing |-> dataProcessing ] @@ hostProps

\* the schema of r required and n - r optional properties
Schema(n, r, dataProcessing) ==
    MakeProps(SubSeq(NamePool, 1, r), SubSeq(NamePool, r + 1, n),
              dataProcessing, TestHostProps)

\* Only the split between the two lists matters to a run: the code always
\* uses their concatenation.
RequiredCounts == {0, 1}

SpecProps ==
    {Schema(c[1], c[2], d) :
        c \in {c \in (0..MaxProps) \X RequiredCounts : c[2] <= c[1]},
        d \in DataProcessings}

Declared == AllProperties(props.requiredProperties, props.optionalProperties)
DeclaredNames == {Declared[i] : i \in 1..Len(Declared)}

\* every sparse input over the declared names, with or without an
\* undeclared field
Inputs(names) ==
    UNION {[keys -> InputValues] : keys \in SUBSET names}
      \cup {StatesJsonMerge(i, [n \in {UndeclaredName} |-> Str("x")]) :
                i \in UNION {[keys -> InputValues] : keys \in SUBSET names}}

RunInit ==
    /\ superProps = <<>>
    /\ input = <<>>
    /\ placeholder = <<>>
    /\ output = <<>>
    /\ transformedInput = <<>>
    /\ finished = <<>>
    /\ shuffled = FALSE
    /\ mapResult = NoMapResult
    /\ object = <<>>
    /\ executionOutput = <<>>
    /\ error = "none"

Init ==
    /\ pc = "new"
    /\ props \in SpecProps
    /\ RunInit

\* new HandleOptionalParameters(scope, id, props)
Construct ==
    /\ pc = "new"
    /\ superProps' = Constructor(props)
    /\ pc' = "built"
    /\ UNCHANGED << props, input, placeholder, output, transformedInput,
                    finished, shuffled, mapResult, object, executionOutput, error >>

\* the task starts an execution of the state machine on an input
StartExecution ==
    /\ pc = "built"
    /\ \E i \in Inputs(DeclaredNames) : input' = i
    /\ pc' = "Generate Placeholder"
    /\ UNCHANGED << props, superProps, placeholder, output, transformedInput,
                    finished, shuffled, mapResult, object, executionOutput, error >>

GeneratePlaceholder ==
    /\ pc = "Generate Placeholder"
    /\ placeholder' = generatePlaceholderTask(superProps.stateMachine)
    /\ pc' = "Merge with placeholder"
    /\ UNCHANGED << props, superProps, input, output, transformedInput,
                    finished, shuffled, mapResult, object, executionOutput, error >>

MergeWithPlaceholder ==
    /\ pc = "Merge with placeholder"
    /\ output' = mergeWithPlaceholderValuesTask(placeholder, input)
    /\ pc' = "Optional properties as array"
    /\ UNCHANGED << props, superProps, input, placeholder, transformedInput,
                    finished, shuffled, mapResult, object, executionOutput, error >>

OptionalPropertiesAsArray ==
    /\ pc = "Optional properties as array"
    /\ transformedInput' =
           optionalPropertiesAsArrayTask(superProps.stateMachine, output)
    /\ pc' = "Map over all properties"
    /\ UNCHANGED << props, superProps, input, placeholder, output,
                    finished, shuffled, mapResult, object, executionOutput, error >>

Started == {finished[e].index : e \in 1..Len(finished)}

\* One iteration of the Map ends; the iterations run in any order.  An
\* iteration that fails fails the Map state and, no state having a Catch,
\* the execution: what the other iterations produced is lost.
MapIteration ==
    /\ pc = "Map over all properties"
    /\ \E i \in (1..Len(transformedInput)) \ Started :
         LET r == Iterator(superProps.stateMachine.dataProcessing,
                           transformedInput[i]) IN
         IF r.ok
         THEN /\ finished' = Append(finished, [index |-> i, result |-> r.result])
              /\ shuffled' = (shuffled \/ \E j \in Started : j > i)
              /\ UNCHANGED << pc, error >>
         ELSE /\ pc' = "FAILED"
              /\ error' = "Process object values"
              /\ finished' = <<>>
              /\ UNCHANGED shuffled
    /\ UNCHANGED << props, superProps, input, placeholder, output,
                    transformedInput, mapResult, object, executionOutput >>

\* Every iteration has ended: the Map state applies its resultSelector to
\* the results, and its output is all that is left of the iterations
MapResultSelector ==
    /\ pc = "Map over all properties"
    /\ Started = 1..Len(transformedInput)
    /\ LET results == MapOutput(finished, Len(transformedInput)) IN
       mapResult' = [ notNullValues |-> selectNotNullValues(results),
                      allValues |-> selectAllValues(results) ]
    /\ finished' = <<>>
    /\ pc' = "Concat"
    /\ UNCHANGED << props, superProps, input, placeholder, output,
                    transformedInput, shuffled, object, executionOutput, error >>

Concat ==
    /\ pc = "Concat"
    /\ LET r == concatTask(superProps.stateMachine, mapResult) IN
       IF r.ok
       THEN /\ object' = r.object
            /\ pc' = "ToJson"
            /\ UNCHANGED error
       ELSE /\ pc' = "FAILED"
            /\ error' = "Concat"
            /\ UNCHANGED object
    /\ UNCHANGED << props, superProps, input, placeholder, output,
                    transformedInput, finished, shuffled, mapResult, executionOutput >>

ToJson ==
    /\ pc = "ToJson"
    /\ LET r == toJsonTask(object) IN
       IF r.ok
       THEN /\ executionOutput' = r.obj
            /\ pc' = "SUCCEEDED"
            /\ UNCHANGED error
       ELSE /\ pc' = "FAILED"
            /\ error' = "ToJson"
            /\ UNCHANGED executionOutput
    /\ UNCHANGED << props, superProps, input, placeholder, output,
                    transformedInput, finished, shuffled, mapResult, object >>

Next ==
    \/ Construct
    \/ StartExecution
    \/ GeneratePlaceholder
    \/ MergeWithPlaceholder
    \/ OptionalPropertiesAsArray
    \/ MapIteration
    \/ MapResultSelector
    \/ Concat
    \/ ToJson

Spec == Init /\ [][Next]_vars

(***************************************************************************)
(* SpecPositions: the schema of one required property and                  *)
(* OptionalPositions optional ones, on every input.                        *)
(***************************************************************************)
PositionsProps ==
    {Schema(1 + OptionalPositions, 1, d) : d \in DataProcessings}

InitPositions ==
    /\ pc = "new"
    /\ props \in PositionsProps
    /\ RunInit

SpecPositions == InitPositions /\ [][Next]_vars

(***************************************************************************)
(* SpecBuild: the constructor alone, on every props object: names that     *)
(* repeat, the empty name, a property named like a parameter of            *)
(* StepFunctionsStartExecution, with and without such parameters.          *)
(***************************************************************************)
BuildNames == {"id", "tag", "", "integrationPattern"}

BuildLists == UNION {[1..n -> BuildNames] : n \in 0..MaxBuildLen}

HostValues ==
    [ integrationPattern |-> {"REQUEST_RESPONSE", "RUN_JOB"},
      name |-> {"run"} ]

HostProps ==
    UNION { {h \in [keys -> {"REQUEST_RESPONSE", "RUN_JOB", "run"}] :
                \A key \in keys : h[key] \in HostValues[key]} :
            keys \in SUBSET DOMAIN HostValues }

BuildProps ==
    {MakeProps(r, o, d, h) :
        r \in BuildLists, o \in BuildLists, d \in DataProcessings, h \in HostProps}

InitBuild ==
    /\ pc = "new"
    /\ props \in BuildProps
    /\ RunInit

NextBuild == Construct

SpecBuild == InitBuild /\ [][NextBuild]_vars

(***************************************************************************)
(* Vocabulary of the properties.                                           *)
(***************************************************************************)
RequiredNames ==
    {props.requiredProperties[i] : i \in 1..Len(props.requiredProperties)}
OptionalNames ==
    {props.optionalProperties[i] : i \in 1..Len(props.optionalProperties)}

\* the keys of the input that the schema declares
SuppliedNames == DOMAIN input \cap DeclaredNames

\* the dataProcessing transform applied to a field's value
Transformed(name, v) ==
    EvaluateDataProcessing(props.dataProcessing,
                           [value |-> v, propertyName |-> name]).val

\* the two renderings of a field, white space apart
OpeningRendering(name, v) ==
    <<"\"">> \o Chars(name) \o <<"\"", ":">> \o StatesJsonToString(v)
ContinuationRendering(name, v) == <<",">> \o OpeningRendering(name, v)

\* the Choice sent item i to "Process object values"
ClassifiedPresent(i) == ~choiceTask(transformedInput[i])

OpeningOf(i) ==
    OpeningRendering(Declared[i], Transformed(Declared[i], transformedInput[i].value))
ContinuationOf(i) ==
    ContinuationRendering(Declared[i], Transformed(Declared[i], transformedInput[i].value))

Falsy == {Num("0"), Bool("false"), Str("")}
FalsyFields == {name \in SuppliedNames : input[name] \in Falsy}

\* no value of the input is the id of the execution itself
OrdinaryInput == \A name \in DOMAIN input : input[name] # Str(ExecutionId)

ValidSchema ==
    /\ \A i \in 1..Len(Declared) : Declared[i] # ""
    /\ \A i, j \in 1..Len(Declared) : i # j => Declared[i] # Declared[j]

(***************************************************************************)
(* C1: the record the pipeline returns has exactly the keys of the input   *)
(* that the schema declares, each mapped to the transform of the input's   *)
(* value; declared fields missing from the input and undeclared input      *)
(* fields do not appear.  (Stated of the inputs no value of which is the   *)
(* execution's own id.)                                                    *)
(***************************************************************************)
C1_OutputIsSuppliedFields ==
    (pc = "SUCCEEDED" /\ OrdinaryInput) =>
        /\ DOMAIN executionOutput = SuppliedNames
        /\ \A name \in SuppliedNames :
               executionOutput[name] = Transformed(name, input[name])

(***************************************************************************)
(* C2: a declared field that the input supplies with a falsy value (0,     *)
(* false, "") keeps the input's value through the merge, is sent by the    *)
(* Choice to "Process object values", never to "Null values", and appears  *)
(* with its transformed value in the record the execution returns.         *)
(***************************************************************************)
C2_FalsyRetained ==
    \A name \in FalsyFields :
        /\ output # <<>> => output[name] = input[name]
        /\ \A e \in 1..Len(finished) :
               Declared[finished[e].index] = name =>
                   /\ finished[e].result # passNullValues
                   /\ StripWhitespace(finished[e].result.value) =
                          OpeningRendering(name, Transformed(name, input[name]))
        /\ pc = "SUCCEEDED" =>
               /\ name \in DOMAIN executionOutput
               /\ executionOutput[name] = Transformed(name, input[name])

\* a run that returns a record for an input holding 0, false and ""
C2_Witness ==
    /\ pc = "SUCCEEDED"
    /\ {input[name] : name \in FalsyFields} = Falsy
    /\ FalsyFields \subseteq DOMAIN executionOutput

(***************************************************************************)
(* C3: with at least one required field, on an input that supplies every   *)
(* required field and exactly one optional field, whatever its position,   *)
(* the text of Concat parses and the output has exactly the required keys  *)
(* and that optional key, each mapped to its transformed value.  (Stated   *)
(* of the inputs no value of which is the execution's own id.)             *)
(***************************************************************************)
SuppliesOneOptional ==
    /\ Len(props.requiredProperties) >= 1
    /\ OrdinaryInput
    /\ RequiredNames \subseteq DOMAIN input
    /\ Cardinality(DOMAIN input \cap OptionalNames) = 1

C3_OneOptionalAnyPosition ==
    SuppliesOneOptional =>
        /\ pc = "FAILED" => error # "ToJson"
        /\ pc = "SUCCEEDED" =>
               /\ DOMAIN executionOutput = SuppliedNames
               /\ \A name \in SuppliedNames :
                      executionOutput[name] = Transformed(name, input[name])

(***************************************************************************)
(* C4: whatever the order the iterations of the Map end in, entry i of     *)
(* allValues and of notNullValues belongs to the i-th declared name, and   *)
(* the execution ends as the evaluation of the items in order ends.        *)
(***************************************************************************)
\* the pipeline, its items evaluated first to last
InOrderEvaluation ==
    LET definition == superProps.stateMachine
        items == optionalPropertiesAsArrayTask(definition,
                     mergeWithPlaceholderValuesTask(
                         generatePlaceholderTask(definition), input))
        iterations == [i \in 1..Len(items) |->
                          Iterator(definition.dataProcessing, items[i])]
        results == [i \in 1..Len(items) |-> iterations[i].result]
        text == concatTask(definition,
                    [ notNullValues |-> selectNotNullValues(results),
                      allValues |-> selectAllValues(results) ])
        parsed == toJsonTask(text.object)
    IN  IF \E i \in 1..Len(items) : ~iterations[i].ok
        THEN [status |-> "FAILED", output |-> <<>>]
        ELSE IF ~text.ok \/ ~parsed.ok
             THEN [status |-> "FAILED", output |-> <<>>]
             ELSE [status |-> "SUCCEEDED", output |-> parsed.obj]

C4_OrderIndependent ==
    /\ pc \in {"Concat", "ToJson", "SUCCEEDED"} =>
           /\ Len(mapResult.allValues) = Len(Declared)
           /\ Len(mapResult.notNullValues) = Len(Declared)
           /\ \A i \in 1..Len(Declared) :
                  IF ClassifiedPresent(i)
                  THEN /\ StripWhitespace(mapResult.allValues[i]) = ContinuationOf(i)
                       /\ StripWhitespace(mapResult.notNullValues[i]) = OpeningOf(i)
                  ELSE /\ mapResult.allValues[i] = <<>>
                       /\ mapResult.notNullValues[i] = <<>>
    /\ pc \in {"SUCCEEDED", "FAILED"} =>
           [status |-> pc, output |-> executionOutput] = InOrderEvaluation

\* a run that returned a record although a later item ended before an
\* earlier one of another content
C4_Witness ==
    /\ pc = "SUCCEEDED"
    /\ shuffled
    /\ Cardinality({mapResult.allValues[i] : i \in 1..Len(Declared)}) >= 2
    /\ Cardinality(DOMAIN executionOutput) >= 2

(***************************************************************************)
(* C5: with no required field, whichever fields the Map classifies         *)
(* present, the text of Concat parses into a record whose keys are the     *)
(* present fields.                                                         *)
(***************************************************************************)
C5_AllOptionalTextParses ==
    (props.requiredProperties = <<>> /\ Len(Declared) >= 1 /\ pc = "ToJson") =>
        /\ toJsonTask(object).ok
        /\ DOMAIN toJsonTask(object).obj =
               {Declared[i] : i \in {j \in 1..Len(Declared) : ClassifiedPresent(j)}}

(***************************************************************************)
(* C6: the constructor does not complete on a schema in which a name       *)
(* occurs twice or is the empty string.                                    *)
(***************************************************************************)
C6_InvalidSchemaRejected == pc = "built" => ValidSchema

(***************************************************************************)
(* C7: when the dataProcessing of an item fails in the Map, or the text of *)
(* Concat does not parse, the execution fails and returns no record: no    *)
(* later state has run and nothing of the other fields is returned.        *)
(***************************************************************************)
\* an item that the Choice sends to "Process object values" and on which
\* dataProcessing is not defined
FailingItems ==
    {i \in 1..Len(transformedInput) :
        /\ ClassifiedPresent(i)
        /\ ~EvaluateDataProcessing(props.dataProcessing, transformedInput[i]).ok}

C7_FailureFailsTheRun ==
    /\ FailingItems # {} =>
           /\ pc \in {"Map over all properties", "FAILED"}
           /\ mapResult = NoMapResult
           /\ object = <<>>
           /\ executionOutput = <<>>
    /\ (object # <<>> /\ ~toJsonTask(object).ok) =>
           /\ pc \in {"ToJson", "FAILED"}
           /\ executionOutput = <<>>
    /\ pc = "FAILED" => executionOutput = <<>>

\* the Map failed on an item of an input that supplies another field on
\* which dataProcessing is defined
C7_Witness ==
    /\ pc = "FAILED"
    /\ error = "Process object values"
    /\ \E i \in 1..Len(transformedInput) :
           /\ Declared[i] \in DOMAIN input
           /\ ClassifiedPresent(i)
           /\ i \notin FailingItems

(***************************************************************************)
(* C8: the props passed to StepFunctionsStartExecution are the caller's    *)
(* without requiredProperties, optionalProperties and dataProcessing, plus *)
(* stateMachine; each other parameter keeps its value, and the compiled    *)
(* pipeline names the declared fields only.                                *)
(***************************************************************************)
C8_HostPropsForwarded ==
    pc = "built" =>
        /\ DOMAIN superProps =
               (DOMAIN props \ HandleOptionalParametersProps) \cup {"stateMachine"}
        /\ \A key \in DOMAIN props \ HandleOptionalParametersProps :
               superProps[key] = props[key]
        /\ superProps.stateMachine.placeholder = DeclaredNames
        /\ superProps.stateMachine.transformedInput = Declared
        /\ superProps.stateMachine.dataProcessing = props.dataProcessing

\* built with both host parameters and a field named like one of them
C8_Witness ==
    /\ pc = "built"
    /\ {"integrationPattern", "name"} \subseteq DOMAIN props
    /\ "integrationPattern" \in DeclaredNames

(***************************************************************************)
(* C9: for a declared field missing from the input, the value the Choice   *)
(* compares the item with is the token the merge put in the field, so the  *)
(* item takes "Null values" and yields empty value and valueToConcat.      *)
(***************************************************************************)
C9_SentinelThreaded ==
    \A e \in 1..Len(finished) :
        Declared[finished[e].index] \notin DOMAIN input =>
            /\ Str(ExecutionId) = output[Declared[finished[e].index]]
            /\ finished[e].result = passNullValues

(***************************************************************************)
(* C10: in the text of Concat the present fields appear in schema order,   *)
(* each rendered once: the first present one by its opening rendering,     *)
(* every later one by its continuation rendering, absent ones by nothing.  *)
(***************************************************************************)
RECURSIVE OneRenderingEach(_, _)
OneRenderingEach(i, opened) ==
    IF i > Len(Declared) THEN <<>>
    ELSE IF ~ClassifiedPresent(i) THEN OneRenderingEach(i + 1, opened)
    ELSE (IF opened THEN ContinuationOf(i) ELSE OpeningOf(i))
             \o OneRenderingEach(i + 1, TRUE)

C10_OneRenderingEach ==
    pc = "ToJson" =>
        StripWhitespace(object) = <<"{">> \o OneRenderingEach(1, FALSE) \o <<"}">>

(***************************************************************************)
(* C10 as amended: in the text of Concat the present fields appear in      *)
(* schema order, each by its continuation rendering, absent ones by        *)
(* nothing; in front of them stands the opening rendering of the first     *)
(* declared field when that field is present (it is then rendered twice),  *)
(* and nothing otherwise.                                                  *)
(***************************************************************************)
RECURSIVE Continuations(_)
Continuations(i) ==
    IF i > Len(Declared) THEN <<>>
    ELSE (IF ClassifiedPresent(i) THEN ContinuationOf(i) ELSE <<>>)
             \o Continuations(i + 1)

C10_FirstSlotThenContinuations ==
    pc = "ToJson" =>
        StripWhitespace(object) =
            <<"{">> \o (IF ClassifiedPresent(1) THEN OpeningOf(1) ELSE <<>>)
                    \o Continuations(1) \o <<"}">>

\* a text built from a present first field, a later present field and an
\* absent one
C10_Witness ==
    /\ pc = "ToJson"
    /\ ClassifiedPresent(1)
    /\ \E i \in 2..Len(Declared) : ClassifiedPresent(i)
    /\ \E i \in 2..Len(Declared) : ~ClassifiedPresent(i)

====
